---- MODULE Spec2Model ----
(***************************************************************************)
(* Model of the MongoDB -> MySQL synchroniser: the fingerprint reconciler  *)
(* (_upsert_by_id), the bulk loader (_insert_bulk), schema creation and    *)
(* evolution, the deletion sweep (mark_deleted_documents) and the          *)
(* flattening engine (flatten_dataframe).                                  *)
(*                                                                         *)
(* A destination table is a schema (column name -> storage type, "" when   *)
(* the column does not exist) and a set of rows.  In Spec and SpecSchema   *)
(* every load and every sweep of one table is one atomic step: the program *)
(* is single threaded and load_dataframe commits once, at its end.         *)
(* SpecFlatten applies the flattening engine to frames of documents, and   *)
(* SpecMain runs main() over two collections statement group by statement  *)
(* group, with a failure possible before each commit.                      *)
(***************************************************************************)
EXTENDS Integers, Sequences, FiniteSets, TLC

VARIABLES coll, schema, rows, lastOp, docs, flat, stored, source, pc, txn

vars == <<coll, schema, rows, lastOp, docs, flat, stored, source, pc, txn>>

(***************************************************************************)
(* Bounds of the model.                                                    *)
(***************************************************************************)
MaxRows == 3
MaxBatch == 2
MaxDocs == 2
MaxList == 2

(***************************************************************************)
(* Cell values.  A value is tagged with its Python kind: None, a str, an   *)
(* int, a bson ObjectId (the natural key as pymongo returns it) or a       *)
(* timestamp (the updated_at field).                                       *)
(***************************************************************************)
Null == [k |-> "null", s |-> "", n |-> 0]
Str(x) == [k |-> "str", s |-> x, n |-> 0]
IntV(i) == [k |-> "int", s |-> "", n |-> i]
Oid(x) == [k |-> "oid", s |-> x, n |-> 0]
Ts(i) == [k |-> "ts", s |-> "", n |-> i]

\* Python's str(): None -> 'None', a str is itself, an int its decimal text,
\* an ObjectId its hex text, a timestamp its ISO text.
PyStr(v) ==
  CASE v.k = "null" -> "None"
    [] v.k = "str" -> v.s
    [] v.k = "oid" -> v.s
    [] v.k = "int" -> ToString(v.n)
    [] v.k = "ts" -> "2024-01-0" \o ToString(v.n)

convert_objectid(value) == IF value.k = "oid" THEN Str(PyStr(value)) ELSE value

Range(f) == {f[i] : i \in DOMAIN f}

Max(S) == CHOOSE m \in S : \A q \in S : q <= m

Min2(a, b) == IF a <= b THEN a ELSE b

(***************************************************************************)
(* Columns.  DataCols are the columns a batch may carry; the table adds    *)
(* the surrogate id and the soft-delete flag.                              *)
(***************************************************************************)
DataCols == {"_id", "a", "updated_at"}
TableCols == DataCols \cup {"id", "is_deleted"}

NoTable == [c \in TableCols |-> ""]
TableExists(sch) == sch["id"] # ""
HasColumn(sch, c) == sch[c] # ""

(***************************************************************************)
(* A batch is a DataFrame: an ordered column list and a sequence of rows,  *)
(* each row a mapping from the batch's columns to values (a column the     *)
(* batch does not carry is absent from it; the row record holds Null       *)
(* there and no operator reads it).                                        *)
(***************************************************************************)
ColSet(cols) == Range(cols)

\* prepare_dataframe_for_mysql: ObjectId -> str in every cell (NaN -> None
\* is already Null here).
prepare_dataframe_for_mysql(df) ==
  [cols |-> df.cols,
   rows |-> [i \in DOMAIN df.rows |->
               [c \in DataCols |-> convert_objectid(df.rows[i][c])]]]

\* The non-null values of one column, in row order (series.dropna()).
RECURSIVE DropNa(_, _)
DropNa(rs, c) ==
  IF rs = <<>> THEN <<>>
  ELSE (IF Head(rs)[c].k = "null" THEN <<>> ELSE <<Head(rs)[c]>>)
         \o DropNa(Tail(rs), c)

VarcharCap == 255
VarcharHeadroom == 50

infer_mysql_type(series) ==
  IF series = <<>> THEN "TEXT"
  ELSE LET sample == series[1]
       IN CASE sample.k = "int" -> "BIGINT"
            [] sample.k = "str" ->
                 LET max_len == Max({Len(PyStr(series[i])) : i \in DOMAIN series})
                 IN IF max_len <= VarcharCap
                    THEN "VARCHAR("
                           \o ToString(Min2(max_len + VarcharHeadroom, VarcharCap))
                           \o ")"
                    ELSE "TEXT"
            [] OTHER -> "TEXT"

get_column_types(df) ==
  [c \in ColSet(df.cols) |-> infer_mysql_type(DropNa(df.rows, c))]

\* CREATE TABLE: id, every batch column with its inferred type, is_deleted.
_ensure_table(sanitized_cols, column_types) ==
  [c \in TableCols |->
     CASE c = "id" -> "INT"
       [] c = "is_deleted" -> "TINYINT(1)"
       [] c \in ColSet(sanitized_cols) -> column_types[c]
       [] OTHER -> ""]

\* Faulty variant of _evolve_schema: a column the batch carries is redefined
\* with the type inferred from this batch (ALTER TABLE ... MODIFY).
_evolve_schema_Retype(sch, sanitized_cols, column_types) ==
  [c \in TableCols |->
     CASE c \in ColSet(sanitized_cols) -> column_types[c]
       [] sch[c] # "" -> sch[c]
       [] c = "is_deleted" -> "TINYINT(1)"
       [] OTHER -> ""]

\* ALTER TABLE ADD COLUMN for each batch column the table lacks, and for
\* is_deleted when it is missing.  Existing columns are left as they are.
_evolve_schema(sch, sanitized_cols, column_types) ==
  [c \in TableCols |->
     IF sch[c] # "" THEN sch[c]
     ELSE CASE c \in ColSet(sanitized_cols) -> column_types[c]
            [] c = "is_deleted" -> "TINYINT(1)"
            [] OTHER -> ""]

(***************************************************************************)
(* What MySQL keeps of a value written through pymysql: the columns of     *)
(* this model are character columns (VARCHAR / TEXT), so a timestamp is    *)
(* stored as its text and read back as a str.                              *)
(***************************************************************************)
DbStore(v) ==
  CASE v.k = "null" -> Null
    [] v.k = "str" -> v
    [] OTHER -> Str(PyStr(v))

(***************************************************************************)
(* Content fingerprint.                                                    *)
(***************************************************************************)
fp_exclude == {"id", "is_deleted", "updated_at"}

FpCols(sanitized_cols) == SelectSeq(sanitized_cols, LAMBDA c : c \notin fp_exclude)

RECURSIVE JoinStr(_, _)
JoinStr(parts, sep) ==
  IF parts = <<>> THEN ""
  ELSE IF Len(parts) = 1 THEN parts[1]
  ELSE parts[1] \o sep \o JoinStr(Tail(parts), sep)

\* "||".join(str(row_dict.get(c)) for c in fp_cols)
_row_fingerprint(row_dict, fp_cols) ==
  JoinStr([i \in DOMAIN fp_cols |-> PyStr(row_dict[fp_cols[i]])], "||")

(***************************************************************************)
(* Destination rows: [id, v, is_deleted], v the values of the data         *)
(* columns (Null where the table has no such column or holds NULL).        *)
(***************************************************************************)
Ids(T) == {r.id : r \in T}

\* Faulty variant of NextId: the maximum is taken over the active rows only.
NextId_ActiveOnly(T) ==
  (IF {r \in T : r.is_deleted = 0} = {} THEN 0
   ELSE Max({r.id : r \in {q \in T : q.is_deleted = 0}})) + 1

\* SELECT COALESCE(MAX(id), 0) FROM t, plus one.
NextId(T) == (IF T = {} THEN 0 ELSE Max(Ids(T))) + 1

RECURSIVE SortById(_)
SortById(S) ==
  IF S = {} THEN <<>>
  ELSE LET m == CHOOSE r \in S : \A q \in S : r.id <= q.id
       IN <<m>> \o SortById(S \ {m})

\* SQL and pandas equality on the key column: NULL / None equals nothing.
KeyEq(x, y) == x.k # "null" /\ y.k # "null" /\ x = y

\* Faulty variant of FetchActive: the key is not part of the WHERE clause.
FetchActive_AnyKey(T, uid) == SortById({r \in T : r.is_deleted = 0})

\* Faulty variant of FetchActive: the flag is tested the wrong way round.
FetchActive_WrongFlag(T, uid) ==
  SortById({r \in T : KeyEq(r.v["_id"], uid) /\ r.is_deleted = 1})

\* SELECT id, cols FROM t WHERE _id = %s AND is_deleted = 0 ORDER BY id
FetchActive(T, uid) ==
  SortById({r \in T : KeyEq(r.v["_id"], uid) /\ r.is_deleted = 0})

\* Faulty variant of existing_fp_map: each queue holds its ids newest first.
existing_fp_map_Lifo(existing_rows, fp_cols) ==
  LET fps == {_row_fingerprint(existing_rows[i].v, fp_cols) : i \in DOMAIN existing_rows}
  IN [f \in fps |->
        LET same == SelectSeq(existing_rows,
                              LAMBDA e : _row_fingerprint(e.v, fp_cols) = f)
        IN [i \in DOMAIN same |-> same[Len(same) + 1 - i].id]]

\* fingerprint -> FIFO list of the ids of the fetched rows that carry it
existing_fp_map(existing_rows, fp_cols) ==
  LET fps == {_row_fingerprint(existing_rows[i].v, fp_cols) : i \in DOMAIN existing_rows}
  IN [f \in fps |->
        LET same == SelectSeq(existing_rows,
                              LAMBDA e : _row_fingerprint(e.v, fp_cols) = f)
        IN [i \in DOMAIN same |-> same[i].id]]

\* Faulty variant of UpdateMatched: the matched row is flagged deleted.
UpdateMatched_Deletes(T, mysql_id, row_dict, sanitized_cols) ==
  {IF r.id = mysql_id THEN [r EXCEPT !.is_deleted = 1] ELSE r : r \in T}

\* UPDATE t SET is_deleted = 0 [, updated_at = %s] WHERE id = %s
UpdateMatched(T, mysql_id, row_dict, sanitized_cols) ==
  {IF r.id = mysql_id
     THEN [r EXCEPT !.is_deleted = 0,
                    !.v = IF "updated_at" \in ColSet(sanitized_cols)
                          THEN [@ EXCEPT !["updated_at"] = DbStore(row_dict["updated_at"])]
                          ELSE @]
     ELSE r : r \in T}

\* UPDATE t SET <every batch column> = %s, is_deleted = 0 WHERE id = %s
OverwriteSlot(T, mysql_id, row_dict, sanitized_cols) ==
  {IF r.id = mysql_id
     THEN [r EXCEPT !.is_deleted = 0,
                    !.v = [c \in DataCols |->
                             IF c \in ColSet(sanitized_cols)
                             THEN DbStore(row_dict[c]) ELSE @[c]]]
     ELSE r : r \in T}

\* INSERT INTO t (id, <batch columns>) VALUES (...): the other columns take
\* their defaults, NULL for a data column and 0 for is_deleted.
InsertRow(T, new_id, row_dict, sanitized_cols) ==
  T \cup {[id |-> new_id,
           v |-> [c \in DataCols |->
                    IF c \in ColSet(sanitized_cols) THEN DbStore(row_dict[c]) ELSE Null],
           is_deleted |-> 0]}

\* Faulty variant of SoftDeleteIds: DELETE FROM t WHERE id IN (...)
SoftDeleteIds_Remove(T, ids) == {r \in T : r.id \notin ids}

\* UPDATE t SET is_deleted = 1 WHERE id IN (...)
SoftDeleteIds(T, ids) ==
  {IF r.id \in ids THEN [r EXCEPT !.is_deleted = 1] ELSE r : r \in T}

\* Lines 148-169: match each incoming row of the key against the FIFO queue
\* of its fingerprint, or defer it.
RECURSIVE MatchLoop(_, _, _, _, _, _)
MatchLoop(incoming, fp_map, matched_mysql_ids, rows_needing_slot, T, sanitized_cols) ==
  IF incoming = <<>>
  THEN [matched |-> matched_mysql_ids, pending |-> rows_needing_slot, T |-> T]
  ELSE LET row_dict == Head(incoming)
           fp == _row_fingerprint(row_dict, FpCols(sanitized_cols))
       IN IF fp \in DOMAIN fp_map /\ fp_map[fp] # <<>>
          THEN LET mysql_id == Head(fp_map[fp])
               IN MatchLoop(Tail(incoming), [fp_map EXCEPT ![fp] = Tail(@)],
                            matched_mysql_ids \cup {mysql_id}, rows_needing_slot,
                            UpdateMatched(T, mysql_id, row_dict, sanitized_cols),
                            sanitized_cols)
          ELSE MatchLoop(Tail(incoming), fp_map, matched_mysql_ids,
                         Append(rows_needing_slot, row_dict), T, sanitized_cols)

\* Faulty variant of SlotLoop: a pending row is always inserted under a new
\* id; spare slots are never reused.
RECURSIVE SlotLoop_AlwaysInsert(_, _, _, _)
SlotLoop_AlwaysInsert(rows_needing_slot, spare_ids, T, sanitized_cols) ==
  IF rows_needing_slot = <<>> THEN [spare |-> spare_ids, T |-> T]
  ELSE SlotLoop_AlwaysInsert(Tail(rows_needing_slot), spare_ids,
                             InsertRow(T, NextId(T), Head(rows_needing_slot),
                                       sanitized_cols),
                             sanitized_cols)

\* Lines 174-194: each pending row takes a spare slot, or a new id.
RECURSIVE SlotLoop(_, _, _, _)
SlotLoop(rows_needing_slot, spare_ids, T, sanitized_cols) ==
  IF rows_needing_slot = <<>> THEN [spare |-> spare_ids, T |-> T]
  ELSE IF spare_ids # <<>>
  THEN SlotLoop(Tail(rows_needing_slot), Tail(spare_ids),
                OverwriteSlot(T, Head(spare_ids), Head(rows_needing_slot), sanitized_cols),
                sanitized_cols)
  ELSE SlotLoop(Tail(rows_needing_slot), <<>>,
                InsertRow(T, NextId(T), Head(rows_needing_slot), sanitized_cols),
                sanitized_cols)

\* df[df["_id"] == uid]
RowsOfKey(df, uid) == SelectSeq(df.rows, LAMBDA r : KeyEq(r["_id"], uid))

\* df["_id"].unique(): the distinct keys in order of first appearance
RECURSIVE UniqueKeys(_, _)
UniqueKeys(rs, seen) ==
  IF rs = <<>> THEN <<>>
  ELSE IF Head(rs)["_id"] \in seen THEN UniqueKeys(Tail(rs), seen)
  ELSE <<Head(rs)["_id"]>> \o UniqueKeys(Tail(rs), seen \cup {Head(rs)["_id"]})

\* One iteration of the loop over keys (lines 128-202).
UpsertKey(T, df, uid) ==
  LET existing_rows == FetchActive(T, uid)
      m == MatchLoop(RowsOfKey(df, uid),
                     existing_fp_map(existing_rows, FpCols(df.cols)),
                     {}, <<>>, T, df.cols)
      existing_ids == [i \in DOMAIN existing_rows |-> existing_rows[i].id]
      spare_ids == SelectSeq(existing_ids, LAMBDA x : x \notin m.matched)
      s == SlotLoop(m.pending, spare_ids, m.T, df.cols)
  IN SoftDeleteIds(s.T, Range(s.spare))

RECURSIVE UpsertKeys(_, _, _)
UpsertKeys(T, df, uids) ==
  IF uids = <<>> THEN T
  ELSE UpsertKeys(UpsertKey(T, df, Head(uids)), df, Tail(uids))

_upsert_by_id(T, df) == UpsertKeys(T, df, UniqueKeys(df.rows, {}))

\* Faulty variant of _insert_bulk: a row whose content some row of the table
\* already holds is not inserted.
_insert_bulk_Dedup(T, df) ==
  LET next_id == NextId(T)
      vals(i) == [c \in DataCols |->
                    IF c \in ColSet(df.cols) THEN DbStore(df.rows[i][c]) ELSE Null]
  IN T \cup {[id |-> next_id + (i - 1), v |-> vals(i), is_deleted |-> 0] :
               i \in {j \in DOMAIN df.rows : \A r \in T : r.v # vals(j)}}

\* executemany INSERT with ids next_id, next_id + 1, ...
_insert_bulk(T, df) ==
  LET next_id == NextId(T)
  IN T \cup {[id |-> next_id + (i - 1),
              v |-> [c \in DataCols |->
                       IF c \in ColSet(df.cols) THEN DbStore(df.rows[i][c]) ELSE Null],
              is_deleted |-> 0] : i \in DOMAIN df.rows}

\* load_dataframe: the table after the call, [schema, rows].
load_dataframe(sch, T, raw) ==
  IF raw.rows = <<>> THEN [schema |-> sch, rows |-> T]
  ELSE LET df == prepare_dataframe_for_mysql(raw)
           column_types == get_column_types(df)
       IN [schema |-> IF ~TableExists(sch)
                      THEN _ensure_table(df.cols, column_types)
                      ELSE _evolve_schema(sch, df.cols, column_types),
           rows |-> IF "_id" \in ColSet(df.cols)
                    THEN _upsert_by_id(T, df)
                    ELSE _insert_bulk(T, df)]

(***************************************************************************)
(* Deletion sweep.                                                         *)
(***************************************************************************)
ActiveKeyStrs(T) == {PyStr(r.v["_id"]) : r \in {q \in T : q.is_deleted = 0}}

\* Faulty variant of mark_deleted_documents: the count comparison is dropped.
mark_deleted_documents_NoCountCheck(sch, T, mongo_ids) ==
  IF ~(TableExists(sch) /\ HasColumn(sch, "_id")) THEN T
  ELSE LET deleted_ids == ActiveKeyStrs(T) \ {PyStr(mid) : mid \in mongo_ids}
       IN {IF r.v["_id"].k = "str" /\ r.v["_id"].s \in deleted_ids /\ r.is_deleted = 0
             THEN [r EXCEPT !.is_deleted = 1] ELSE r : r \in T}

\* Faulty variant of mark_deleted_documents: the set difference is taken the
\* wrong way round (source keys minus destination keys).
mark_deleted_documents_WrongDifference(sch, T, mongo_ids) ==
  IF ~(TableExists(sch) /\ HasColumn(sch, "_id")) THEN T
  ELSE LET mongo_id_set == {PyStr(mid) : mid \in mongo_ids}
           mysql_id_set == ActiveKeyStrs(T)
           deleted_ids == mongo_id_set \ mysql_id_set
       IN IF Cardinality(mongo_id_set) # Cardinality(mysql_id_set)
          THEN {IF r.v["_id"].k = "str" /\ r.v["_id"].s \in deleted_ids /\ r.is_deleted = 0
                  THEN [r EXCEPT !.is_deleted = 1] ELSE r : r \in T}
          ELSE T

\* mark_deleted_documents: the rows after the call.  Without a table or an
\* _id column the SELECT raises and nothing is written.
mark_deleted_documents(sch, T, mongo_ids) ==
  IF ~(TableExists(sch) /\ HasColumn(sch, "_id")) THEN T
  ELSE LET mongo_id_set == {PyStr(mid) : mid \in mongo_ids}
           mysql_id_set == ActiveKeyStrs(T)
           deleted_ids == mysql_id_set \ mongo_id_set
       IN IF Cardinality(mongo_id_set) # Cardinality(mysql_id_set)
          THEN {IF r.v["_id"].k = "str" /\ r.v["_id"].s \in deleted_ids /\ r.is_deleted = 0
                  THEN [r EXCEPT !.is_deleted = 1] ELSE r : r \in T}
          ELSE T

(***************************************************************************)
(* Flattening engine.  A DataFrame here is [cols, rows], each row a        *)
(* mapping from the frame's columns to cells; a cell is a scalar, a list   *)
(* of cells or a dict of cells.  main() hands flatten_dataframe the output *)
(* of pd.json_normalize, so a dict occurs only as an element of a list,    *)
(* and the dicts of this model hold scalars.  NaN and None are both Null.  *)
(***************************************************************************)
ListV(items) == [k |-> "list", s |-> "", n |-> 0, items |-> items]
DictV(keys, f) == [k |-> "dict", s |-> "", n |-> 0, keys |-> keys, f |-> f]

RECURSIVE ConcatAll(_)
ConcatAll(seqs) == IF seqs = <<>> THEN <<>> ELSE Head(seqs) \o ConcatAll(Tail(seqs))

RECURSIVE Dedup(_, _)
Dedup(xs, seen) ==
  IF xs = <<>> THEN <<>>
  ELSE IF Head(xs) \in seen THEN Dedup(Tail(xs), seen)
  ELSE <<Head(xs)>> \o Dedup(Tail(xs), seen \cup {Head(xs)})

\* Line 11: the columns that hold a dict in at least one row.
DictCols(df) ==
  SelectSeq(df.cols, LAMBDA col : \E i \in DOMAIN df.rows : df.rows[i][col].k = "dict")

\* Lines 14-20: replace one dict column by its sub-columns <col>_<field>; a
\* cell that is no dict counts as the empty dict, a missing field is NaN.
NormalizeCol(df, col) ==
  LET fields == Dedup(ConcatAll([i \in DOMAIN df.rows |->
                                   IF df.rows[i][col].k = "dict"
                                   THEN df.rows[i][col].keys ELSE <<>>]), {})
      kept == SelectSeq(df.cols, LAMBDA c : c # col)
      added == [j \in DOMAIN fields |-> col \o "_" \o fields[j]]
      cell(i, j) == IF df.rows[i][col].k = "dict"
                       /\ fields[j] \in Range(df.rows[i][col].keys)
                    THEN df.rows[i][col].f[fields[j]] ELSE Null
  IN [cols |-> kept \o added,
      rows |-> [i \in DOMAIN df.rows |->
                  [c \in Range(kept) \cup Range(added) |->
                     IF c \in Range(kept) THEN df.rows[i][c]
                     ELSE cell(i, CHOOSE j \in DOMAIN added : added[j] = c)]]]

RECURSIVE NormalizeAll(_, _)
NormalizeAll(df, dict_cols) ==
  IF dict_cols = <<>> THEN df
  ELSE NormalizeAll(NormalizeCol(df, Head(dict_cols)), Tail(dict_cols))

\* Line 23: the columns that hold a non-empty list in at least one row.
ListCols(df) ==
  SelectSeq(df.cols,
            LAMBDA col : \E i \in DOMAIN df.rows :
                            df.rows[i][col].k = "list" /\ Len(df.rows[i][col].items) > 0)

\* Lines 26-27: in every list column a cell that is no list becomes [cell].
WrapAll(df, list_cols) ==
  [cols |-> df.cols,
   rows |-> [i \in DOMAIN df.rows |->
               [c \in DOMAIN df.rows[i] |->
                  IF c \in Range(list_cols) /\ df.rows[i][c].k # "list"
                  THEN ListV(<<df.rows[i][c]>>) ELSE df.rows[i][c]]]]

\* Faulty variant of Explode: a row whose list is empty yields no row.
Explode_DropEmpty(df, col) ==
  [cols |-> df.cols,
   rows |-> ConcatAll([i \in DOMAIN df.rows |->
                         LET items == df.rows[i][col].items
                         IN [j \in DOMAIN items |->
                               [df.rows[i] EXCEPT ![col] = items[j]]]])]

\* df.explode(col, ignore_index=True): a row per element of the row's list;
\* a row whose list is empty stays, with NaN in the column.
Explode(df, col) ==
  [cols |-> df.cols,
   rows |-> ConcatAll([i \in DOMAIN df.rows |->
                         LET items == df.rows[i][col].items
                         IN IF items = <<>>
                            THEN <<[df.rows[i] EXCEPT ![col] = Null]>>
                            ELSE [j \in DOMAIN items |->
                                    [df.rows[i] EXCEPT ![col] = items[j]]]])]

\* Faulty variant of ExplodeAll: the list columns are exploded together,
\* element j of one with element j of the others (a zipped pairing).
ExplodeAll_Zip(df, list_cols) ==
  [cols |-> df.cols,
   rows |-> ConcatAll([i \in DOMAIN df.rows |->
                         LET width == Max({Len(df.rows[i][c].items) : c \in Range(list_cols)}
                                            \cup {1})
                         IN [j \in 1..width |->
                               [c \in DOMAIN df.rows[i] |->
                                  IF c \in Range(list_cols)
                                  THEN IF j <= Len(df.rows[i][c].items)
                                       THEN df.rows[i][c].items[j] ELSE Null
                                  ELSE df.rows[i][c]]]])]

\* Lines 29-30: the list columns are exploded one after the other.
RECURSIVE ExplodeAll(_, _)
ExplodeAll(df, list_cols) ==
  IF list_cols = <<>> THEN df
  ELSE ExplodeAll(Explode(df, Head(list_cols)), Tail(list_cols))

\* The while loop: one pass normalises the dict columns, then explodes the
\* list columns; the loop ends after a pass that did neither.
RECURSIVE flatten_dataframe(_)
flatten_dataframe(df) ==
  LET dict_cols == DictCols(df)
      normalized == NormalizeAll(df, dict_cols)
      list_cols == ListCols(normalized)
      exploded == IF list_cols # <<>>
                  THEN ExplodeAll(WrapAll(normalized, list_cols), list_cols)
                  ELSE normalized
  IN IF dict_cols # <<>> \/ list_cols # <<>>
     THEN flatten_dataframe(exploded)
     ELSE exploded

(***************************************************************************)
(* Inputs.  main() synchronises one table per source collection; coll is   *)
(* the collection a behaviour follows, and fixes the shape of its          *)
(* documents:                                                              *)
(*   users   documents with _id and a                                      *)
(*   events  documents with _id, a and updated_at                          *)
(*   logs    documents whose rows carry no _id column (bulk-loader path)   *)
(*   mixed   documents whose field set changes from batch to batch         *)
(* main() never passes an empty DataFrame to load_dataframe (main.py       *)
(* lines 28-35), so a batch holds at least one row.                        *)
(***************************************************************************)
Collections == {"users", "events", "logs"}

ColLists(c) ==
  CASE c = "users" -> {<<"_id", "a">>}
    [] c = "events" -> {<<"_id", "a", "updated_at">>}
    [] c = "logs" -> {<<"a">>}
    [] c = "mixed" -> {<<"_id">>, <<"_id", "a">>, <<"a">>, <<"_id", "a", "updated_at">>}

KeyDomain(c) == IF c = "users" THEN {Oid("k1"), Oid("k2")} ELSE {Oid("k1")}

ADomain(c) ==
  CASE c = "users" -> {Null, Str("None"), Str("Nine")}
    [] c = "events" -> {Null, Str("x")}
    [] c = "logs" -> {Null, Str("None"), Str("Nine")}
    [] c = "mixed" -> {Null, Str("x")}

TsDomain(c) == IF c = "events" THEN {Ts(1), Ts(2)} ELSE {Ts(1)}

BatchRows(c, cols) ==
  {[col \in DataCols |-> CASE col = "_id" -> k [] col = "a" -> a [] OTHER -> u] :
     k \in (IF "_id" \in ColSet(cols) THEN KeyDomain(c) ELSE {Null}),
     a \in (IF "a" \in ColSet(cols) THEN ADomain(c) ELSE {Null}),
     u \in (IF "updated_at" \in ColSet(cols) THEN TsDomain(c) ELSE {Null})}

\* The rows of one key come from one document, so they agree on updated_at.
OneDocPerKey(rs) ==
  \A i, j \in DOMAIN rs :
     rs[i]["_id"] = rs[j]["_id"] => rs[i]["updated_at"] = rs[j]["updated_at"]

Batches(c) ==
  UNION {{[cols |-> cols, rows |-> rs] :
            rs \in {q \in UNION {[1..n -> BatchRows(c, cols)] : n \in 1..MaxBatch} :
                      OneDocPerKey(q)}} : cols \in ColLists(c)}

\* main() skips the sweep of a collection that has no document (main.py
\* lines 42-46), so a sweep receives at least one key.
KeySets(c) == (SUBSET KeyDomain(c)) \ {{}}

(***************************************************************************)
(* The state machine.  lastOp records the last call: its kind, the batch's *)
(* column list (a load), the source key set (a sweep) and whether the call *)
(* changed a row.                                                          *)
(***************************************************************************)
NoDf == [cols |-> <<>>, rows |-> <<>>]

(***************************************************************************)
(* A run of main() over a database of two collections, step by step.       *)
(* stored is what the MySQL server holds committed, per collection; source *)
(* is what MongoDB holds; pc is main's position (idle between runs, or the *)
(* index of the collection in the load loop or in the deletion-check       *)
(* loop); txn is load_dataframe's connection: the batch, the rows as the   *)
(* connection sees them (work) and the keys still to reconcile.            *)
(***************************************************************************)
MainColls == <<"users", "orders">>

MainKeys(c) == IF c = "users" THEN <<"k1", "k2">> ELSE <<"k1">>

MainValues(c) == IF c = "users" THEN {Str("x"), Str("y")} ELSE {Str("x")}

Doc(key, a) == [c \in {"_id", "a"} |-> IF c = "_id" THEN Oid(key) ELSE a]

\* The contents a source collection may have: no document, or documents of
\* pairwise distinct _id, in key order.
SourceStates(c) ==
  LET keys == MainKeys(c)
      pairs == {p \in (DOMAIN keys) \X (DOMAIN keys) : p[1] < p[2]}
  IN {<<>>}
       \cup {<<Doc(keys[i], a)>> : i \in DOMAIN keys, a \in MainValues(c)}
       \cup {<<Doc(keys[p[1]], a), Doc(keys[p[2]], b)>> :
               p \in pairs, a \in MainValues(c), b \in MainValues(c)}

\* pd.json_normalize(documents) for documents whose fields are _id and a.
json_normalize(documents) == [cols |-> <<"_id", "a">>, rows |-> documents]

\* The flattened frame as load_dataframe's batch.
ToBatch(df) ==
  [cols |-> df.cols,
   rows |-> [i \in DOMAIN df.rows |->
               [c \in DataCols |->
                  IF c \in DOMAIN df.rows[i] THEN df.rows[i][c] ELSE Null]]]

\* all_mongo_ids = [doc['_id'] for doc in collection.find({}, {'_id': 1})]
all_mongo_ids(documents) == {documents[i]["_id"] : i \in DOMAIN documents}

\* Faulty variant of SweepSkipped: the sweep runs for an empty collection too.
SweepSkipped_Never(mongo_ids) == FALSE

\* if not all_mongo_ids: continue
SweepSkipped(mongo_ids) == mongo_ids = {}

\* Faulty variant of Persisted: every statement is committed as it runs
\* (autocommit).
Persisted_Autocommit(committed, work) == work

\* What the server holds after a statement of an open transaction: pymysql
\* connects with autocommit off, so the committed rows stay as they were.
Persisted(committed, work) == committed

NoTxn == [open |-> FALSE, coll |-> "", df |-> NoDf, work |-> {}, todo |-> <<>>]

Idle == [phase |-> "idle", i |-> 1]

AfterLoad(i) ==
  IF i < Len(MainColls) THEN [phase |-> "load", i |-> i + 1]
  ELSE [phase |-> "sweep", i |-> 1]

AfterSweep(i) ==
  IF i < Len(MainColls) THEN [phase |-> "sweep", i |-> i + 1] ELSE Idle

InitRun ==
  /\ stored = [c \in Range(MainColls) |-> [schema |-> NoTable, rows |-> {}]]
  /\ source = [c \in Range(MainColls) |-> <<>>]
  /\ pc = Idle
  /\ txn = NoTxn

InitTable ==
  /\ schema = NoTable
  /\ rows = {}
  /\ lastOp = [kind |-> "none", cols |-> <<>>, ids |-> {}, changed |-> FALSE]

Init == InitTable /\ coll \in Collections /\ docs = NoDf /\ flat = NoDf /\ InitRun

Load(df) ==
  \E after \in {load_dataframe(schema, rows, df)} :
     /\ Cardinality(after.rows) <= MaxRows
     /\ schema' = after.schema
     /\ rows' = after.rows
     /\ lastOp' = [kind |-> "load", cols |-> df.cols, ids |-> {},
                   changed |-> (after.rows # rows)]
     /\ UNCHANGED <<coll, docs, flat, stored, source, pc, txn>>

Sweep(mongo_ids) ==
  /\ rows' = mark_deleted_documents(schema, rows, mongo_ids)
  /\ lastOp' = [kind |-> "sweep", cols |-> <<>>, ids |-> mongo_ids,
                changed |-> (rows' # rows)]
  /\ UNCHANGED <<schema, coll, docs, flat, stored, source, pc, txn>>

Next ==
  \/ \E df \in Batches(coll) : Load(df)
  \/ \E mongo_ids \in KeySets(coll) : Sweep(mongo_ids)

Spec == Init /\ [][Next]_vars

\* A collection whose documents gain and lose fields between runs.
InitSchema ==
  InitTable /\ coll = "mixed" /\ docs = NoDf /\ flat = NoDf /\ InitRun

SpecSchema == InitSchema /\ [][Next]_vars

(***************************************************************************)
(* Flattening on its own: docs is a frame of one to MaxDocs documents with *)
(* the fields _id, x and y, where x and y are scalars or arrays of at most *)
(* MaxList elements (x may also be an array of sub-documents), and flat is *)
(* what flatten_dataframe returns for it.                                  *)
(***************************************************************************)
SeqsUpTo(S, n) == UNION {[1..m -> S] : m \in 0..n}

SubDoc(i) == DictV(<<"p">>, [f \in {"p"} |-> IntV(i)])

XCells ==
  {Null} \cup {ListV(xs) : xs \in SeqsUpTo({IntV(1), IntV(2)}, MaxList)}
         \cup {ListV(<<SubDoc(1), SubDoc(2)>>)}

YCells ==
  {Null} \cup {ListV(ys) : ys \in SeqsUpTo({Str("a"), Str("b")}, MaxList)}

DocRows ==
  {[c \in {"_id", "x", "y"} |-> CASE c = "_id" -> k [] c = "x" -> x [] OTHER -> y] :
     k \in {Str("k1"), Str("k2")}, x \in XCells, y \in YCells}

\* The documents of a collection have pairwise distinct _id.
FlattenInputs ==
  {[cols |-> <<"_id", "x", "y">>, rows |-> rs] :
     rs \in {q \in UNION {[1..m -> DocRows] : m \in 1..MaxDocs} :
              \A i, j \in DOMAIN q : i # j => q[i]["_id"] # q[j]["_id"]}}

InitFlatten ==
  /\ InitTable /\ coll = "users" /\ docs \in FlattenInputs /\ flat = NoDf
  /\ InitRun

Flatten ==
  /\ lastOp.kind = "none"
  /\ flat' = flatten_dataframe(docs)
  /\ lastOp' = [lastOp EXCEPT !.kind = "flatten"]
  /\ UNCHANGED <<coll, schema, rows, docs, stored, source, pc, txn>>

NextFlatten == Flatten

SpecFlatten == InitFlatten /\ [][NextFlatten]_vars

(***************************************************************************)
(* main(), one step at a time.  The documents of these collections have no *)
(* updated_at field, so get_max_updated_at returns None and every run      *)
(* fetches all documents of a collection.                                  *)
(***************************************************************************)
InitMain ==
  InitTable /\ coll = "users" /\ docs = NoDf /\ flat = NoDf /\ InitRun

tableVars == <<coll, schema, rows, lastOp, docs, flat>>

\* A run starts; MongoDB holds some documents and does not change during
\* the run.
StartRun ==
  /\ pc.phase = "idle"
  /\ source' \in [Range(MainColls) -> UNION {SourceStates(c) : c \in Range(MainColls)}]
  /\ \A c \in Range(MainColls) : source'[c] \in SourceStates(c)
  /\ pc' = [phase |-> "load", i |-> 1]
  /\ txn' = NoTxn
  /\ UNCHANGED <<stored, tableVars>>

\* main.py lines 28-30: no document, the collection is skipped.
LoadSkip ==
  /\ pc.phase = "load" /\ ~txn.open
  /\ source[MainColls[pc.i]] = <<>>
  /\ pc' = AfterLoad(pc.i)
  /\ UNCHANGED <<stored, source, txn, tableVars>>

\* load_dataframe up to its first row statement: the batch is prepared and
\* CREATE TABLE / ALTER TABLE run; MySQL commits DDL by itself.
LoadBegin ==
  /\ pc.phase = "load" /\ ~txn.open
  /\ source[MainColls[pc.i]] # <<>>
  /\ LET c == MainColls[pc.i]
         raw == ToBatch(flatten_dataframe(json_normalize(source[c])))
         df == prepare_dataframe_for_mysql(raw)
         column_types == get_column_types(df)
     IN /\ raw.rows # <<>>
        /\ Cardinality(load_dataframe(stored[c].schema, stored[c].rows, raw).rows)
             <= MaxRows
        /\ stored' = [stored EXCEPT ![c].schema =
                        IF ~TableExists(@) THEN _ensure_table(df.cols, column_types)
                        ELSE _evolve_schema(@, df.cols, column_types)]
        /\ txn' = [open |-> TRUE, coll |-> c, df |-> df, work |-> stored[c].rows,
                   todo |-> IF "_id" \in ColSet(df.cols) THEN UniqueKeys(df.rows, {})
                            ELSE <<Null>>]
  /\ UNCHANGED <<source, pc, tableVars>>

\* The statements of one key (or the bulk insert) run inside the open
\* transaction.
LoadStep ==
  /\ txn.open /\ txn.todo # <<>>
  /\ LET work == IF "_id" \in ColSet(txn.df.cols)
                 THEN UpsertKey(txn.work, txn.df, Head(txn.todo))
                 ELSE _insert_bulk(txn.work, txn.df)
     IN /\ txn' = [txn EXCEPT !.work = work, !.todo = Tail(@)]
        /\ stored' = [stored EXCEPT ![txn.coll].rows = Persisted(@, work)]
  /\ UNCHANGED <<source, pc, tableVars>>

\* conn.commit() (mysql_loader.py line 243), and main moves on.
LoadCommit ==
  /\ txn.open /\ txn.todo = <<>>
  /\ stored' = [stored EXCEPT ![txn.coll].rows = txn.work]
  /\ txn' = NoTxn
  /\ pc' = AfterLoad(pc.i)
  /\ UNCHANGED <<source, tableVars>>

\* load_dataframe raises, or the process dies, before the commit: the
\* connection is lost and the server rolls its transaction back.  txn keeps
\* what the lost connection had seen.
Crash ==
  /\ txn.open
  /\ txn' = [txn EXCEPT !.open = FALSE]
  /\ pc' = Idle
  /\ UNCHANGED <<stored, source, tableVars>>

\* main.py lines 46-48.
SweepSkip ==
  /\ pc.phase = "sweep"
  /\ SweepSkipped(all_mongo_ids(source[MainColls[pc.i]]))
  /\ pc' = AfterSweep(pc.i)
  /\ UNCHANGED <<stored, source, txn, tableVars>>

\* main.py line 50.
SweepDo ==
  /\ pc.phase = "sweep"
  /\ ~SweepSkipped(all_mongo_ids(source[MainColls[pc.i]]))
  /\ LET c == MainColls[pc.i]
     IN stored' = [stored EXCEPT ![c].rows =
                     mark_deleted_documents(stored[c].schema, @,
                                            all_mongo_ids(source[c]))]
  /\ pc' = AfterSweep(pc.i)
  /\ UNCHANGED <<source, txn, tableVars>>

NextMain ==
  \/ StartRun
  \/ LoadSkip
  \/ LoadBegin
  \/ LoadStep
  \/ LoadCommit
  \/ Crash
  \/ SweepSkip
  \/ SweepDo

SpecMain == InitMain /\ [][NextMain]_vars

(***************************************************************************)
(* Vocabulary of the claims.                                               *)
(***************************************************************************)
Keyed(cols) == "_id" \in ColSet(cols)

Active(T) == {r \in T : r.is_deleted = 0}

\* The active rows of natural key uid (a prepared key value).
ActiveOfKey(T, uid) == {r \in T : KeyEq(r.v["_id"], uid) /\ r.is_deleted = 0}

\* The content of a row over the batch's data columns: its values in the
\* batch's columns other than id, is_deleted and updated_at.
Content(row_dict, cols) ==
  [i \in DOMAIN FpCols(cols) |-> row_dict[FpCols(cols)[i]]]

\* The prepared keys that occur in a batch.
BatchKeys(df) == {convert_objectid(df.rows[i]["_id"]) : i \in DOMAIN df.rows}

\* The table after load_dataframe(df) is run in the current state.
After(df) == load_dataframe(schema, rows, df)

\* Loading df a second time, right after a load of df left the table once,
\* changes nothing.
SecondLoadChangesNothing(df, once) ==
  load_dataframe(once.schema, once.rows, df) = once

StoredKeys(T) == {r.v["_id"] : r \in T} \ {Null}

(***************************************************************************)
(* C1: after _upsert_by_id has processed a batch, for every natural key of *)
(* the batch the multiset of contents of the key's active rows equals the  *)
(* multiset of contents of the key's incoming rows, whatever the table     *)
(* held before.                                                            *)
(***************************************************************************)
ActiveMatchesBatch(df, T) ==
  LET d == prepare_dataframe_for_mysql(df)
  IN \A uid \in BatchKeys(df) :
       LET inc == RowsOfKey(d, uid)
           act == ActiveOfKey(T, uid)
           contents == {Content(r.v, d.cols) : r \in act}
                         \cup {Content(inc[i], d.cols) : i \in DOMAIN inc}
       IN \A c \in contents :
            Cardinality({r \in act : Content(r.v, d.cols) = c})
              = Cardinality({i \in DOMAIN inc : Content(inc[i], d.cols) = c})

C1_ActiveRowsMatchBatch ==
  \A df \in Batches(coll) :
     Keyed(df.cols) => ActiveMatchesBatch(df, After(df).rows)

(***************************************************************************)
(* C2: in every reachable state, no two active rows of one natural key     *)
(* carry the same content fingerprint.                                     *)
(***************************************************************************)
TableFpCols == SelectSeq(<<"_id", "a">>, LAMBDA c : HasColumn(schema, c))

C2_NoDuplicateActiveFingerprint ==
  \A r1, r2 \in Active(rows) :
     (r1.id # r2.id /\ KeyEq(r1.v["_id"], r2.v["_id"]))
       => _row_fingerprint(r1.v, TableFpCols) # _row_fingerprint(r2.v, TableFpCols)

(***************************************************************************)
(* C3: revival law.  When a soft-deleted row of key k is the only row of k *)
(* with its fingerprint and the batch carries a row of k with that         *)
(* fingerprint, reconciliation makes that surrogate id active again and    *)
(* allocates no new id for the incoming row.                               *)
(***************************************************************************)
Revivable(df, r) ==
  LET d == prepare_dataframe_for_mysql(df)
      fp_cols == FpCols(d.cols)
  IN /\ r.is_deleted = 1
     /\ \E i \in DOMAIN d.rows :
           /\ KeyEq(d.rows[i]["_id"], r.v["_id"])
           /\ _row_fingerprint(d.rows[i], fp_cols) = _row_fingerprint(r.v, fp_cols)
     /\ \A q \in rows :
           (q.id # r.id /\ KeyEq(q.v["_id"], r.v["_id"]))
             => _row_fingerprint(q.v, fp_cols) # _row_fingerprint(r.v, fp_cols)

C3_Revival ==
  \A df \in Batches(coll) : \A r \in rows :
     (Keyed(df.cols) /\ Revivable(df, r))
       => \E q \in After(df).rows : q.id = r.id /\ q.is_deleted = 0

(***************************************************************************)
(* C4: soft-delete-only law.  No step of any load or sweep removes a       *)
(* surrogate id from the table, and a row that a step turns from active to *)
(* deleted keeps its content: only the flag changes.                       *)
(***************************************************************************)
C4_SoftDeleteOnly ==
  [][\A r \in rows :
       \E q \in rows' :
          /\ q.id = r.id
          /\ (r.is_deleted = 0 /\ q.is_deleted = 1) => q.v = r.v]_vars

C4_Witness ==
  /\ lastOp.kind = "sweep"
  /\ lastOp.changed
  /\ \E r \in rows : r.is_deleted = 1
  /\ \E r \in rows : r.is_deleted = 0

(***************************************************************************)
(* C5: no duplication on re-sync.  For every batch with a natural key,     *)
(* loading it and then loading it again leaves, for every natural key, no  *)
(* more active rows after the second load than after the first, and the    *)
(* second load allocates no new surrogate id.                              *)
(***************************************************************************)
ResyncAddsNothing(once, twice) ==
  /\ \A uid \in StoredKeys(twice.rows) :
        Cardinality(ActiveOfKey(twice.rows, uid))
          <= Cardinality(ActiveOfKey(once.rows, uid))
  /\ Ids(twice.rows) = Ids(once.rows)

C5_ResyncAddsNothing ==
  \A df \in Batches(coll) :
     Keyed(df.cols) =>
       LET once == After(df)
       IN ResyncAddsNothing(once, load_dataframe(once.schema, once.rows, df))

\* The table is what a load of some two-row batch of one key leaves, so a
\* further load of that batch is the re-sync.
C5_Witness ==
  /\ lastOp.kind = "load"
  /\ \E df \in Batches(coll) :
        /\ Keyed(df.cols)
        /\ Len(df.rows) = 2
        /\ Cardinality(BatchKeys(df)) = 1
        /\ After(df).rows = rows
        /\ \E uid \in BatchKeys(df) : Cardinality(ActiveOfKey(rows, uid)) = 2

SourceKeyStrs(mongo_ids) == {PyStr(mid) : mid \in mongo_ids}

C7_SweepEqualCardinality ==
  [][(/\ lastOp'.kind = "sweep"
      /\ Cardinality(SourceKeyStrs(lastOp'.ids)) = Cardinality(ActiveKeyStrs(rows)))
       => rows' = rows]_vars

C7_Witness ==
  /\ lastOp.kind = "sweep"
  /\ ~lastOp.changed
  /\ Cardinality(SourceKeyStrs(lastOp.ids)) = Cardinality(ActiveKeyStrs(rows))
  /\ \E r \in Active(rows) : PyStr(r.v["_id"]) \notin SourceKeyStrs(lastOp.ids)

(***************************************************************************)
(* C8: deletion sweep, differing cardinality.  When the number of distinct *)
(* source keys differs from the number of distinct active destination      *)
(* keys, after mark_deleted_documents no active row has a natural key      *)
(* absent from the source key set, and the rows whose key is in the source *)
(* set and the rows already soft-deleted are unchanged.                    *)
(***************************************************************************)
C8_SweepDifferentCardinality ==
  [][(/\ lastOp'.kind = "sweep"
      /\ HasColumn(schema, "_id")
      /\ Cardinality(SourceKeyStrs(lastOp'.ids)) # Cardinality(ActiveKeyStrs(rows)))
       => /\ \A r \in Active(rows') :
                r.v["_id"] # Null => PyStr(r.v["_id"]) \in SourceKeyStrs(lastOp'.ids)
          /\ \A r \in rows :
                (r.is_deleted = 1 \/ PyStr(r.v["_id"]) \in SourceKeyStrs(lastOp'.ids))
                  => r \in rows'
          /\ Ids(rows') = Ids(rows)]_vars

\* A sweep has just soft-deleted the rows of a key absent from the source
\* and left an active row of a key present in it.
C8_Witness ==
  /\ lastOp.kind = "sweep"
  /\ lastOp.changed
  /\ \E r \in rows :
        r.is_deleted = 1 /\ PyStr(r.v["_id"]) \notin SourceKeyStrs(lastOp.ids)
  /\ \E r \in Active(rows) : PyStr(r.v["_id"]) \in SourceKeyStrs(lastOp.ids)

(***************************************************************************)
(* C9: the schema evolves monotonically.  Across any sequence of loads,    *)
(* the table's column set after load_dataframe is a superset of its column *)
(* set before, holds every column of the incoming batch and is_deleted,    *)
(* and the storage type of an already existing column is unchanged.        *)
(***************************************************************************)
C9_SchemaMonotone ==
  [][lastOp'.kind = "load"
       => /\ \A c \in TableCols : schema[c] # "" => schema'[c] = schema[c]
          /\ \A c \in ColSet(lastOp'.cols) \cup {"is_deleted"} : schema'[c] # ""]_vars

\* Column a was created as TEXT by an all-null batch, a later batch brought
\* a str into it (for which VARCHAR is inferred), and updated_at was added.
C9_Witness ==
  /\ lastOp.kind = "load"
  /\ schema["a"] = "TEXT"
  /\ \E r \in rows : r.v["a"] = Str("x")
  /\ schema["updated_at"] # ""
  /\ \E r \in rows : r.v["updated_at"] = Null

(***************************************************************************)
(* C10: cartesian expansion law.  A document with two sibling arrays of    *)
(* scalars, of lengths K >= 1 and M >= 1, flattens into exactly K*M rows,  *)
(* one for each pairing of an element of the first array with an element   *)
(* of the second, each carrying the document's natural key unchanged.      *)
(***************************************************************************)
ScalarArray(cell) ==
  /\ cell.k = "list"
  /\ Len(cell.items) >= 1
  /\ \A j \in DOMAIN cell.items : cell.items[j].k \notin {"list", "dict"}

Occurrences(xs, e) == Cardinality({j \in DOMAIN xs : xs[j] = e})

CrossProduct(doc, out) ==
  LET xs == doc["x"].items
      ys == doc["y"].items
  IN /\ Len(out.rows) = Len(xs) * Len(ys)
     /\ out.cols = <<"_id", "x", "y">>
     /\ \A i \in DOMAIN out.rows : out.rows[i]["_id"] = doc["_id"]
     /\ \A a \in Range(xs) : \A b \in Range(ys) :
           Cardinality({i \in DOMAIN out.rows :
                          out.rows[i]["x"] = a /\ out.rows[i]["y"] = b})
             = Occurrences(xs, a) * Occurrences(ys, b)

C10_CartesianExpansion ==
  (/\ lastOp.kind = "flatten"
   /\ Len(docs.rows) = 1
   /\ ScalarArray(docs.rows[1]["x"])
   /\ ScalarArray(docs.rows[1]["y"]))
    => CrossProduct(docs.rows[1], flat)

\* Arrays [1, 2] and ["a", "b"]: four rows, among them the pairing (1, "b")
\* that a zipped expansion does not produce.
C10_Witness ==
  /\ lastOp.kind = "flatten"
  /\ Len(docs.rows) = 1
  /\ docs.rows[1]["x"] = ListV(<<IntV(1), IntV(2)>>)
  /\ docs.rows[1]["y"] = ListV(<<Str("a"), Str("b")>>)
  /\ Len(flat.rows) = 4
  /\ \E i \in DOMAIN flat.rows :
        flat.rows[i]["x"] = IntV(1) /\ flat.rows[i]["y"] = Str("b")

(***************************************************************************)
(* C11 (as stated): empty-sequence drop.  When flatten_dataframe explodes  *)
(* a column, a document whose value in that column is an empty sequence    *)
(* contributes no row: it does not appear in the flattened row-set.        *)
(***************************************************************************)
EmptyInExploded(df, i, c) ==
  /\ c \in Range(ListCols(df))
  /\ df.rows[i][c] = ListV(<<>>)

RowsOfDoc(out, key) == {j \in DOMAIN out.rows : out.rows[j]["_id"] = key}

C11_EmptySequenceDropped ==
  lastOp.kind = "flatten" =>
    \A i \in DOMAIN docs.rows : \A c \in {"x", "y"} :
       EmptyInExploded(docs, i, c) => RowsOfDoc(flat, docs.rows[i]["_id"]) = {}

(***************************************************************************)
(* C11 (amended): when flatten_dataframe explodes a column, a document     *)
(* whose value in that column is an empty sequence stays in the output: it *)
(* yields one row per element of its other array (one row when that is    *)
(* empty or no array), each holding null in the exploded column and in     *)
(* every column derived from it.                                           *)
(***************************************************************************)
Sibling(c) == IF c = "x" THEN "y" ELSE "x"

\* Column c itself, or the sub-columns c_<field> its sub-documents became.
DerivedCols(out, c) == {d \in Range(out.cols) : d = c \/ d = c \o "_p"}

C11_EmptySequenceKept ==
  lastOp.kind = "flatten" =>
    \A i \in DOMAIN docs.rows : \A c \in {"x", "y"} :
       EmptyInExploded(docs, i, c) =>
         LET other == docs.rows[i][Sibling(c)]
             mine == RowsOfDoc(flat, docs.rows[i]["_id"])
         IN /\ Cardinality(mine)
                 = IF other.k = "list" THEN Max({1, Len(other.items)}) ELSE 1
            /\ \A j \in mine : \A d \in DerivedCols(flat, c) : flat.rows[j][d] = Null

\* Document k1 has x = [1, 2] and document k2 has x = []: column x is
\* exploded and k2 is in the output with a null x.
C11_Witness ==
  /\ lastOp.kind = "flatten"
  /\ Len(docs.rows) = 2
  /\ docs.rows[1]["x"] = ListV(<<IntV(1), IntV(2)>>)
  /\ docs.rows[2]["x"] = ListV(<<>>)
  /\ docs.rows[2]["y"] = Null
  /\ Len(flat.rows) = 3
  /\ flat.rows[3]["_id"] = docs.rows[2]["_id"]
  /\ flat.rows[3]["x"] = Null

(***************************************************************************)
(* C12: the bulk loader is purely additive.  For a batch of n rows without *)
(* a natural-key column, load_dataframe leaves every existing row as it    *)
(* was and adds exactly n rows, all active, one per incoming row with that *)
(* row's values, whatever the table holds (rows of equal content too).     *)
(***************************************************************************)
StoredRow(df, i) ==
  [c \in DataCols |-> IF c \in ColSet(df.cols) THEN DbStore(df.rows[i][c]) ELSE Null]

BulkAdditive(df, before, after) ==
  LET added == after \ before
  IN /\ before \subseteq after
     /\ Cardinality(added) = Len(df.rows)
     /\ Cardinality({r.id : r \in added}) = Len(df.rows)
     /\ \A r \in added : r.is_deleted = 0 /\ r.id \notin Ids(before)
     /\ \A i \in DOMAIN df.rows :
           Cardinality({r \in added : r.v = StoredRow(df, i)})
             = Cardinality({j \in DOMAIN df.rows : StoredRow(df, j) = StoredRow(df, i)})

C12_BulkAdditive ==
  \A df \in Batches(coll) :
     ~Keyed(df.cols) => BulkAdditive(df, rows, After(df).rows)

\* A bulk load has just run on a table that holds a keyed row, and the
\* table now has two active key-less rows of equal content.
C12_Witness ==
  /\ lastOp.kind = "load"
  /\ ~Keyed(lastOp.cols)
  /\ lastOp.changed
  /\ \E r \in rows : r.v["_id"] # Null
  /\ \E r1, r2 \in Active(rows) :
        r1.id # r2.id /\ r1.v["_id"] = Null /\ r1.v = r2.v

(***************************************************************************)
(* C13: slot accounting per key.  For a key with a active rows before the  *)
(* reconciliation and n incoming rows, pending rows overwrite spare slots  *)
(* first and a new id is allocated only when none is left: exactly         *)
(* max(0, n - a) rows are inserted for the key, exactly max(0, a - n) of   *)
(* its active rows are soft-deleted, and n are active afterwards.  When    *)
(* the key's single active row is replaced by one incoming row of another  *)
(* fingerprint, the same id is afterwards the key's only active row and    *)
(* holds the incoming content.                                             *)
(***************************************************************************)
Monus(x, y) == IF x >= y THEN x - y ELSE 0

InsertedOfKey(before, after, uid) ==
  {r \in after : r.id \notin Ids(before) /\ KeyEq(r.v["_id"], uid)}

SoftDeletedOfKey(before, after, uid) ==
  {r \in ActiveOfKey(before, uid) : \E q \in after : q.id = r.id /\ q.is_deleted = 1}

SlotAccounting(df, before, after) ==
  LET d == prepare_dataframe_for_mysql(df)
  IN \A uid \in BatchKeys(df) :
       LET a == Cardinality(ActiveOfKey(before, uid))
           inc == RowsOfKey(d, uid)
           n == Len(inc)
       IN /\ Cardinality(InsertedOfKey(before, after, uid)) = Monus(n, a)
          /\ Cardinality(SoftDeletedOfKey(before, after, uid)) = Monus(a, n)
          /\ Cardinality(ActiveOfKey(after, uid)) = n
          /\ (a = 1 /\ n = 1) =>
                \A r \in ActiveOfKey(before, uid) :
                   _row_fingerprint(r.v, FpCols(d.cols))
                       # _row_fingerprint(inc[1], FpCols(d.cols))
                     => \E q \in after :
                           /\ ActiveOfKey(after, uid) = {q}
                           /\ q.id = r.id
                           /\ Content(q.v, d.cols) = Content(inc[1], d.cols)

IdsDistinct(T) == \A r1, r2 \in T : r1.id = r2.id => r1 = r2

MaxIdOf(T) == IF T = {} THEN 0 ELSE Max(Ids(T))

C14_IdsDistinctAndIncreasing ==
  [][/\ IdsDistinct(rows')
     /\ LET allocated == Ids(rows') \ Ids(rows)
        IN allocated = (MaxIdOf(rows) + 1)..(MaxIdOf(rows) + Cardinality(allocated))]_vars

\* A load has inserted id 3 while a row of a smaller id is soft-deleted and
\* another is active: the new id lies above both.
C14_Witness ==
  /\ lastOp.kind = "load"
  /\ lastOp.changed
  /\ Ids(rows) = {1, 2, 3}
  /\ \E r \in rows : r.id = 2 /\ r.is_deleted = 1
  /\ \E r \in rows : r.id = 3 /\ r.is_deleted = 0
  /\ \E r \in rows : r.id = 1 /\ r.is_deleted = 0

(***************************************************************************)
(* C15: FIFO tie-break.  When e active rows of a key share a fingerprint   *)
(* and the batch brings j < e rows of the key with that fingerprint, the j *)
(* smallest of those ids are matched (they stay active with their          *)
(* fingerprint) and the e - j largest become spare: afterwards each is     *)
(* soft-deleted or overwritten with a row of another fingerprint.          *)
(***************************************************************************)
RowOfId(T, id) == CHOOSE r \in T : r.id = id

FifoTieBreak(df, before, after) ==
  LET d == prepare_dataframe_for_mysql(df)
      fp_cols == FpCols(d.cols)
  IN \A uid \in BatchKeys(df) :
       LET inc == RowsOfKey(d, uid)
       IN \A i \in DOMAIN inc :
            LET f == _row_fingerprint(inc[i], fp_cols)
                j == Cardinality({x \in DOMAIN inc : _row_fingerprint(inc[x], fp_cols) = f})
                sharing == SortById({r \in ActiveOfKey(before, uid) :
                                       _row_fingerprint(r.v, fp_cols) = f})
            IN Len(sharing) > j =>
                 \A x \in DOMAIN sharing :
                    LET q == RowOfId(after, sharing[x].id)
                    IN IF x <= j
                       THEN /\ q.is_deleted = 0
                            /\ Content(q.v, d.cols) = Content(sharing[x].v, d.cols)
                       ELSE \/ q.is_deleted = 1
                            \/ _row_fingerprint(q.v, fp_cols) # f

C15_FifoTieBreak ==
  \A df \in Batches(coll) :
     Keyed(df.cols) => FifoTieBreak(df, rows, After(df).rows)

\* Ids 1 and 2 are active rows of one key and equal in content; a batch of
\* one row with their fingerprint keeps id 1 and soft-deletes id 2.
C15_Witness ==
  /\ \E r1, r2 \in Active(rows) :
        r1.id = 1 /\ r2.id = 2 /\ r1.v = r2.v /\ r1.v["_id"] # Null
  /\ \E df \in Batches(coll) :
        /\ Keyed(df.cols)
        /\ Len(df.rows) = 1
        /\ RowOfId(After(df).rows, 1) = RowOfId(rows, 1)
        /\ RowOfId(After(df).rows, 2).is_deleted = 1

(***************************************************************************)
(* C17: frame of reconciliation.  _upsert_by_id leaves every row whose     *)
(* natural key does not occur in the batch as it was (id, content, flag):  *)
(* a batch neither soft-deletes nor revives nor rewrites rows of keys it   *)
(* does not mention.                                                       *)
(***************************************************************************)
KeyInBatch(df, r) == \E uid \in BatchKeys(df) : KeyEq(r.v["_id"], uid)

C17_ReconciliationFrame ==
  \A df \in Batches(coll) :
     Keyed(df.cols) =>
       \A r \in rows : ~KeyInBatch(df, r) => r \in After(df).rows

\* The table holds an active and a soft-deleted row of a key, and a batch
\* that mentions only another key changes the table.
C17_Witness ==
  \E df \in Batches(coll) :
     /\ Keyed(df.cols)
     /\ After(df).rows # rows
     /\ \E r \in rows : ~KeyInBatch(df, r) /\ r.is_deleted = 0
     /\ \E r \in rows : ~KeyInBatch(df, r) /\ r.is_deleted = 1
     /\ \E r \in rows : KeyInBatch(df, r)

(***************************************************************************)
(* C18: a fingerprint match implies equal content.  Whenever an incoming   *)
(* row and an active row of its key have the same fingerprint, their       *)
(* values in the fingerprinted columns are equal: _row_fingerprint is      *)
(* injective on the contents that occur.                                   *)
(***************************************************************************)
C18_FingerprintMatchImpliesEqualContent ==
  \A df \in Batches(coll) :
     Keyed(df.cols) =>
       LET d == prepare_dataframe_for_mysql(df)
       IN \A i \in DOMAIN d.rows : \A r \in ActiveOfKey(rows, d.rows[i]["_id"]) :
             _row_fingerprint(d.rows[i], FpCols(d.cols))
                 = _row_fingerprint(r.v, FpCols(d.cols))
               => Content(d.rows[i], d.cols) = Content(r.v, d.cols)

(***************************************************************************)
(* C19: no stale values.  After the reconciliation of a batch that lacks a *)
(* column c the table has, every active row of a key of the batch holds    *)
(* null in c, whether it was inserted, overwritten as a spare slot or kept *)
(* by a fingerprint match.                                                 *)
(***************************************************************************)
C19_NoStaleValues ==
  \A df \in Batches(coll) :
     Keyed(df.cols) =>
       \A c \in DataCols :
          (HasColumn(schema, c) /\ c \notin ColSet(df.cols)) =>
            \A r \in Active(After(df).rows) : KeyInBatch(df, r) => r.v[c] = Null

(***************************************************************************)
(* C16: the partial-failure unit is one collection.  From the start of a   *)
(* collection's load_dataframe up to its commit, and when the load fails   *)
(* or the process dies before that commit, the committed rows of every     *)
(* collection stay as they are: none of the load's updates, overwrites,    *)
(* inserts or soft deletes is persisted, and what earlier collections      *)
(* committed is untouched.                                                 *)
(***************************************************************************)
BeforeCommit ==
  \/ ~txn.open /\ txn'.open
  \/ txn.open /\ txn'.open
  \/ txn.open /\ ~txn'.open /\ pc'.phase = "idle"

C16_UncommittedLoadNotPersisted ==
  [][BeforeCommit =>
       \A c \in Range(MainColls) : stored'[c].rows = stored[c].rows]_vars

\* The process died during the load of orders, the second collection: the
\* lost connection had changed rows that the server does not hold, and the
\* load of users, earlier in the same run, had committed.
C16_Witness ==
  /\ pc.phase = "idle"
  /\ ~txn.open
  /\ txn.coll = "orders"
  /\ txn.work # stored["orders"].rows
  /\ source["users"] # <<>>
  /\ Active(stored["users"].rows) # {}

(***************************************************************************)
(* C20: an empty source collection.  In a run of main during which a       *)
(* source collection holds no document, no step changes that collection's  *)
(* table: the load and the deletion sweep are both skipped, so every row   *)
(* active before the run is active after it.                               *)
(***************************************************************************)
C20_EmptySourceSkipped ==
  [][\A c \in Range(MainColls) :
        source'[c] = <<>> => stored'[c] = stored[c]]_vars

\* A run has ended in which users held no document while orders was
\* synchronised, and the table of users still has an active row.
C20_Witness ==
  /\ pc = Idle
  /\ txn = NoTxn
  /\ source["users"] = <<>>
  /\ source["orders"] # <<>>
  /\ Active(stored["users"].rows) # {}
  /\ Active(stored["orders"].rows) # {}

====
